---- MODULE Spec2Model ----
\* Turn resolver of the conversational search bot (src/actions/actions.py) and its
\* Elasticsearch knowledge-base gateway (src/actions/storage.py).
\*
\* Representation of Python values:
\*   - a str is a TLA+ string; None is the distinguished value None;
\*   - the characters of a str are given by Chars: a sequence of tokens, each either
\*     one of the four bracket characters or a maximal bracket-free run of characters
\*     (TLC cannot index into a string);
\*   - a dict is a function from its keys; a list is a sequence;
\*   - a raised exception is a result whose fault field names the exception.
EXTENDS Integers, Sequences, FiniteSets, TLC

VARIABLES
    slots,      \* tracker.slots: slot name -> value (owned by the conversational engine)
    entities,   \* tracker.latest_message["entities"]
    pc,         \* "ready": the engine waits for input or calls the action;
                \* "returned": run has returned (or raised), its events are not yet applied
    mode,       \* which of _query_join_objects / _query_objects / _query_attribute ran
    events,     \* the list of SlotSet events returned by run (the state delta)
    messages,   \* dispatcher.messages of the turn, in order
    calls,      \* the store calls (es.search / es.get) of the turn, with their responses
    fault       \* the exception that left run, or NoFault

vars == <<slots, entities, pc, mode, events, messages, calls, fault>>

\* ---------------------------------------------------------------- bounds

MaxHits == 2        \* most hits one search response carries
MaxLimit == 2       \* largest result-size limit a user asks for

\* ---------------------------------------------------------------- values

None == "<None>"
NoFault == "none"

\* Python truthiness of a str-or-None value.
Truthy(v) == v # None /\ v # ""

\* Python truthiness of a list-or-None value (None is held as the empty sequence:
\* the code never stores an empty list, see _query_objects).
NoList == <<>>

Brackets == {"{", "}", "[", "]"}

\* The characters of a string, as tokens.
Chars(s) ==
    CASE s = "Sci-Fi [2020]" -> <<"Sci-Fi ", "[", "2020", "]">>
      [] s = "Alien [1979]"  -> <<"Alien ", "[", "1979", "]">>
      [] s = "{Dune}"        -> <<"{", "Dune", "}">>
      [] s = ""              -> <<>>
      [] OTHER               -> <<s>>

\* str(v) followed by its characters: what an f-string inserts for v.
Fmt(v) == IF v = None THEN <<"None">> ELSE Chars(v)

\* actions.py sanitize: re.sub(r"[{}\[\]]", "", text)
sanitize(text) == SelectSeq(text, LAMBDA c : c \notin Brackets)

HasBracket(text) == \E i \in 1..Len(text) : text[i] \in Brackets

\* sep.join(parts) on token sequences
RECURSIVE Join(_, _)
Join(sep, parts) ==
    IF parts = <<>> THEN <<>>
    ELSE IF Len(parts) = 1 THEN parts[1]
    ELSE parts[1] \o sep \o Join(sep, Tail(parts))

DigitStr == <<"1", "2", "3", "4", "5", "6", "7", "8", "9">>

\* int(limit) for the decimal strings the engine puts in the limit slot
ParseInt(s) == CHOOSE i \in 1..Len(DigitStr) : DigitStr[i] = s

Min(a, b) == IF a < b THEN a ELSE b

\* ---------------------------------------------------------------- slot names

SLOT_OBJECT_TYPE == "object_type"
SLOT_LAST_OBJECT_TYPE == "knowledge_base_last_object_type"
SLOT_ATTRIBUTE == "attribute"
SLOT_MENTION == "mention"
SLOT_LAST_OBJECT == "knowledge_base_last_object"
SLOT_LISTED_OBJECTS == "knowledge_base_listed_objects"
SLOT_LIMIT == "limit"

\* ---------------------------------------------------------------- registry

\* BookDocumentType / MovieDocumentType / RatingDocumentType: the ordered attribute
\* map of each type, each attribute bound to its strategy.
BookAttributes ==
    << [name |-> "title", kind |-> "text"],
       [name |-> "author", kind |-> "text"],
       [name |-> "publication_year", kind |-> "range"],
       [name |-> "genres", kind |-> "text"],
       [name |-> "summary", kind |-> "default"] >>

MovieAttributes ==
    << [name |-> "title", kind |-> "text"],
       [name |-> "publication_year", kind |-> "range"],
       [name |-> "genres", kind |-> "text"],
       [name |-> "summary", kind |-> "default"],
       [name |-> "actors", kind |-> "text"],
       [name |-> "director", kind |-> "text"] >>

RatingAttributes ==
    << [name |-> "mean_rating", kind |-> "default"],
       [name |-> "total_votes", kind |-> "default"] >>

\* ActionElasticsearchKnowledgeBase.__init__: document_types
document_types ==
    [ book   |-> [index |-> "book",   attributes |-> BookAttributes],
      movie  |-> [index |-> "movie",  attributes |-> MovieAttributes],
      rating |-> [index |-> "rating", attributes |-> RatingAttributes] ]

AttributeNames(object_type) ==
    [ i \in 1..Len(document_types[object_type].attributes) |->
        document_types[object_type].attributes[i].name ]

AttributeKind(object_type, name) ==
    LET as == document_types[object_type].attributes
    IN  as[CHOOSE i \in 1..Len(as) : as[i].name = name].kind

AllAttributeNames ==
    UNION { { document_types[t].attributes[i].name :
                i \in 1..Len(document_types[t].attributes) } : t \in DOMAIN document_types }

\* ---------------------------------------------------------------- results of calls

\* A Python call either returns a value or raises.
Ok(v) == [fault |-> NoFault, value |-> v]
Raise(e) == [fault |-> e, value |-> None]

\* An absent object (Python None where a dict is expected).
NoObject == [none |-> TRUE]

\* to_string of the three document types: document[key] raises KeyError on a
\* missing key and TypeError when document is None.
Subscript(document, key) ==
    IF document = NoObject THEN Raise("TypeError")
    ELSE IF key \notin DOMAIN document THEN Raise("KeyError")
    ELSE Ok(document[key])

BookToString(document) ==
    LET t == Subscript(document, "title")
        y == Subscript(document, "publication_year")
    IN  IF t.fault # NoFault THEN t
        ELSE IF y.fault # NoFault THEN y
        ELSE Ok(Fmt(t.value) \o <<" from ">> \o Fmt(y.value))

MovieToString(document) ==
    LET t == Subscript(document, "title")
        y == Subscript(document, "publication_year")
    IN  IF t.fault # NoFault THEN t
        ELSE IF y.fault # NoFault THEN y
        ELSE Ok(Fmt(t.value) \o <<" from ">> \o Fmt(y.value))

RatingToString(document) ==
    LET m == Subscript(document, "mean_rating")
        v == Subscript(document, "total_votes")
    IN  IF m.fault # NoFault THEN m
        ELSE IF v.fault # NoFault THEN v
        ELSE Ok(Fmt(m.value) \o <<" out of 10 (">> \o Fmt(v.value) \o <<" votes)">>)

to_string(object_type, document) ==
    CASE object_type = "book"   -> BookToString(document)
      [] object_type = "movie"  -> MovieToString(document)
      [] object_type = "rating" -> RatingToString(document)

\* ---------------------------------------------------------------- the store

\* The documents the search engine holds, per index: id -> _source.
Store ==
    [ book   |-> [ b1 |-> [title |-> "Dune", author |-> "Herbert",
                           publication_year |-> "1965", summary |-> ""],
                   b2 |-> [title |-> "Emma"] ],
      movie  |-> [ m1 |-> [title |-> "Dune", publication_year |-> "1984",
                           genres |-> "Sci-Fi [2020]", summary |-> "{Dune}"],
                   m2 |-> [title |-> "Alien [1979]", publication_year |-> "1979"] ],
      rating |-> [ m1 |-> [mean_rating |-> "8", total_votes |-> "100"] ] ]

\* A raw hit: the store-assigned identifier (_id) and the document body (_source).
Hit(index, id) == [id |-> id, source |-> Store[index][id]]

\* The sequences of at most n distinct elements of S.
DistinctSeqs(S, n) ==
    { q \in UNION { [1..k -> S] : k \in 0..n } :
        \A i, j \in 1..Len(q) : i # j => q[i] # q[j] }

NoResp == [kind |-> "none"]

StoreFault == [kind |-> "fault"]

\* What es.search / es.get may answer to a request. A search answers with ranked
\* hits of the index, no more than the size cap; which documents match is the
\* store's business. A point lookup answers with the document, or with a falsy
\* body when there is none. Either may raise instead.
ValidResponses(req) ==
    IF req.op = "search"
    THEN { [kind |-> "hits",
             hits |-> [i \in 1..Len(ids) |-> Hit(req.index, ids[i])]] :
             ids \in DistinctSeqs(DOMAIN Store[req.index],
                                  Min(Min(req.body.size, MaxHits),
                                      Cardinality(DOMAIN Store[req.index]))) }
         \cup {StoreFault}
    ELSE (IF req.id \in DOMAIN Store[req.index]
          THEN {[kind |-> "doc", hit |-> Hit(req.index, req.id)]}
          ELSE {[kind |-> "empty"]})
         \cup {StoreFault}

\* A store call of a turn: the k-th call takes the k-th response; when the turn has
\* not received it yet the call is pending (the coroutine is suspended there).
Pending == "pending"

StoreCall(req, rs, k) ==
    IF k > Len(rs) THEN [fault |-> Pending, value |-> None, calls |-> <<req>>]
    ELSE IF rs[k].kind = "fault"
         THEN [fault |-> "StoreError", value |-> None,
               calls |-> <<[req EXCEPT !.resp = rs[k]]>>]
         ELSE [fault |-> NoFault, value |-> rs[k],
               calls |-> <<[req EXCEPT !.resp = rs[k]]>>]

\* ---------------------------------------------------------------- attribute strategies

generate_match_query(attribute, value) ==
    [kind |-> "match", field |-> attribute, query |-> value]

generate_match_phrase_query(attribute, value) ==
    [kind |-> "match_phrase", field |-> attribute, query |-> value]

generate_range_query(attribute, value, role) ==
    [kind |-> "range", field |-> attribute, op |-> role, value |-> value]

\* DefaultAttribute / TextAttribute / RangeAttribute .generate_query
DefaultGenerateQuery(name, value, role) == generate_match_query(name, value)

TextGenerateQuery(name, value, role) == generate_match_phrase_query(name, value)

\* Mutant of RangeGenerateQuery: the role "eq" is not told apart.
RangeGenerateQueryAlwaysRange(name, value, role) ==
    generate_range_query(name, value, role)

RangeGenerateQuery(name, value, role) ==
    IF role = "eq" THEN generate_match_query(name, value)
    ELSE generate_range_query(name, value, role)

generate_query(kind, name, value, role) ==
    CASE kind = "default" -> DefaultGenerateQuery(name, value, role)
      [] kind = "text"    -> TextGenerateQuery(name, value, role)
      [] kind = "range"   -> RangeGenerateQuery(name, value, role)

\* DefaultAttribute.get_field: document.get(name)
get_field(name, document) ==
    IF name \in DOMAIN document THEN document[name] ELSE None

\* ---------------------------------------------------------------- the gateway

\* ElasticsearchKnowledgeBase.to_kb_obj
to_kb_obj(obj, object_type) ==
    LET names == { document_types[object_type].attributes[i].name :
                     i \in 1..Len(document_types[object_type].attributes) }
        build(pretty) ==
            IF pretty.fault # NoFault THEN Raise(pretty.fault)
            ELSE Ok([ n \in names \cup {"name", "id"} |->
                        IF n = "id" THEN obj.id
                        ELSE IF n = "name" THEN pretty.value
                        ELSE get_field(n, obj.source) ])
    IN  build(to_string(object_type, obj.source))

\* ElasticsearchKnowledgeBase.get_attributes_of_object
get_attributes_of_object(object_type) ==
    IF object_type \notin DOMAIN document_types THEN <<>>
    ELSE AttributeNames(object_type)

\* [self.to_kb_obj(hit, object_type) for hit in hits]: the first fault ends it.
RECURSIVE MapToKbObj(_, _)
MapToKbObj(hits, object_type) ==
    LET both(first, rest) ==
            IF first.fault # NoFault THEN Raise(first.fault)
            ELSE IF rest.fault # NoFault THEN rest
            ELSE Ok(<<first.value>> \o rest.value)
    IN  IF hits = <<>> THEN Ok(<<>>)
        ELSE both(to_kb_obj(Head(hits), object_type),
                  MapToKbObj(Tail(hits), object_type))

DefaultLimit == 5

\* ElasticsearchKnowledgeBase.get_objects; the call is the k-th store call of the
\* turn, rs are the responses the turn has received.
get_objects(object_type, attributes, limit, rs, k) ==
    LET queries == [ i \in 1..Len(attributes) |->
                         generate_query(AttributeKind(object_type, attributes[i].name),
                                        attributes[i].name, attributes[i].value,
                                        attributes[i].role) ]
        query == [size |-> limit, must |-> queries]
        normalized(res, objs) ==
            [fault |-> objs.fault, value |-> objs.value, calls |-> res.calls]
        searched(res) ==
            IF res.fault # NoFault THEN res
            ELSE normalized(res, MapToKbObj(res.value.hits, object_type))
    IN  IF object_type \notin DOMAIN document_types
        THEN [fault |-> NoFault, value |-> <<>>, calls |-> <<>>]
        ELSE searched(StoreCall([op |-> "search",
                                 index |-> document_types[object_type].index,
                                 body |-> query, resp |-> NoResp], rs, k))

\* Mutant of get_object: a lookup that finds no document raises.
GetObjectMissRaises(object_type, object_identifier, rs, k) ==
    LET normalized(res, o) ==
            [fault |-> o.fault,
             value |-> IF o.fault = NoFault THEN o.value ELSE NoObject,
             calls |-> res.calls]
        fetched(res) ==
            IF res.fault # NoFault THEN res
            ELSE IF res.value.kind = "doc"
                 THEN normalized(res, to_kb_obj(res.value.hit, object_type))
                 ELSE [fault |-> "NotFoundError", value |-> NoObject,
                       calls |-> res.calls]
    IN  IF object_type \notin DOMAIN document_types
        THEN [fault |-> NoFault, value |-> NoObject, calls |-> <<>>]
        ELSE fetched(StoreCall([op |-> "get",
                                index |-> document_types[object_type].index,
                                id |-> object_identifier, resp |-> NoResp], rs, k))

\* ElasticsearchKnowledgeBase.get_object
get_object(object_type, object_identifier, rs, k) ==
    LET normalized(res, o) ==
            [fault |-> o.fault,
             value |-> IF o.fault = NoFault THEN o.value ELSE NoObject,
             calls |-> res.calls]
        fetched(res) ==
            IF res.fault # NoFault THEN res
            ELSE IF res.value.kind = "doc"
                 THEN normalized(res, to_kb_obj(res.value.hit, object_type))
                 ELSE [fault |-> NoFault, value |-> NoObject, calls |-> res.calls]
    IN  IF object_type \notin DOMAIN document_types
        THEN [fault |-> NoFault, value |-> NoObject, calls |-> <<>>]
        ELSE fetched(StoreCall([op |-> "get",
                                index |-> document_types[object_type].index,
                                id |-> object_identifier, resp |-> NoResp], rs, k))

\* ---------------------------------------------------------------- the tracker

\* Tracker.get_slot: the value of the slot, None for a slot the tracker lacks.
get_slot(tr, key) == IF key \in DOMAIN tr THEN tr[key] ELSE None

SlotSet(key, value) == [event |-> "slot", name |-> key, value |-> value]

Template(name) == [template |-> name]
Text(tokens) == [text |-> tokens]

\* actions.py get_attribute_slots: the set attribute slots of the type, in the
\* type's attribute order, each with the role of the first matching entity of the
\* latest message that carries one.
RECURSIVE get_attribute_slots(_, _, _)
get_attribute_slots(tr, ents, object_attributes) ==
    IF object_attributes = <<>> THEN <<>>
    ELSE LET attr == Head(object_attributes)
             attr_val == IF attr \in DOMAIN tr THEN get_slot(tr, attr) ELSE None
             role == SelectSeq(ents, LAMBDA e : e.entity = attr /\ e.value = attr_val
                                                /\ "role" \in DOMAIN e)
             rest == get_attribute_slots(tr, ents, Tail(object_attributes))
         IN  IF attr_val # None
             THEN <<[name |-> attr, value |-> attr_val,
                     role |-> IF Len(role) > 0 THEN role[1].role ELSE None]>> \o rest
             ELSE rest

\* rasa_sdk.knowledge_base.utils.reset_attribute_slots: one SlotSet(attr, None) per
\* attribute of the type whose slot holds a value.
RECURSIVE reset_attribute_slots(_, _)
reset_attribute_slots(tr, object_attributes) ==
    IF object_attributes = <<>> THEN <<>>
    ELSE LET attr == Head(object_attributes)
             attr_val == IF attr \in DOMAIN tr THEN get_slot(tr, attr) ELSE None
             rest == reset_attribute_slots(tr, Tail(object_attributes))
         IN  IF attr_val # None THEN <<SlotSet(attr, None)>> \o rest ELSE rest

\* rasa_sdk KnowledgeBase.ordinal_mention_mapping: "1".."10" index the listed
\* objects from the front, "LAST" takes the last; an index past the end raises.
OrdinalMentions == {DigitStr[i] : i \in 1..Len(DigitStr)} \cup {"LAST"}

ordinal_mention(mention, listed_items) ==
    IF mention = "LAST" THEN Ok(listed_items[Len(listed_items)])
    ELSE IF ParseInt(mention) <= Len(listed_items)
         THEN Ok(listed_items[ParseInt(mention)])
         ELSE Raise("IndexError")

\* rasa_sdk.knowledge_base.utils.resolve_mention
resolve_mention(tr) ==
    LET mention == get_slot(tr, SLOT_MENTION)
        listed_items == tr[SLOT_LISTED_OBJECTS]
        last_object == get_slot(tr, SLOT_LAST_OBJECT)
        last_object_type == get_slot(tr, SLOT_LAST_OBJECT_TYPE)
        current_object_type == get_slot(tr, SLOT_OBJECT_TYPE)
    IN  IF ~Truthy(mention) THEN Ok(None)
        ELSE IF listed_items # NoList /\ mention \in OrdinalMentions
             THEN ordinal_mention(mention, listed_items)
        ELSE IF current_object_type = last_object_type THEN Ok(last_object)
        ELSE Ok(None)

\* rasa_sdk.knowledge_base.utils.get_object_name, with use_last_object_mention
\* at its default True.
get_object_name(tr) ==
    LET mention == get_slot(tr, SLOT_MENTION)
        object_type == get_slot(tr, SLOT_OBJECT_TYPE)
        object_name == get_slot(tr, object_type)
    IN  IF Truthy(mention) THEN resolve_mention(tr)
        ELSE IF Truthy(object_name) THEN Ok(object_name)
        ELSE Ok(get_slot(tr, SLOT_LAST_OBJECT))

\* rasa_sdk KnowledgeBase defaults: key attribute "id", representation obj["name"].
key_attribute == "id"
repr_function(obj) == obj["name"]

\* ---------------------------------------------------------------- the turn resolver

\* What a turn has produced when it returns, raises or is suspended at a store call.
Result(m, ev, msgs, cs, f) ==
    [mode |-> m, events |-> ev, messages |-> msgs, calls |-> cs, fault |-> f]

\* Mutant of raised: the fault is caught and the mention flag cleared.
RaisedClearsMention(m, cs, f) ==
    Result(m, <<SlotSet(SLOT_MENTION, None)>>, <<>>, cs, f)

\* An exception raised inside run or one of its awaited calls leaves run: run has
\* no try/except, so nothing is returned and what was dispatched is dropped. A
\* turn suspended at a store call has produced nothing yet either.
raised(m, cs, f) == Result(m, <<>>, <<>>, cs, f)

\* ActionElasticsearchKnowledgeBase.utter_objects
utter_objects(object_type, objects, attributes) ==
    LET attributes_repr ==
            IF attributes # <<>>
            THEN <<" with ">> \o
                 Join(<<", ">>, [ i \in 1..Len(attributes) |->
                                    Chars(attributes[i].name) \o <<": ">>
                                    \o Chars(attributes[i].value) ])
            ELSE <<>>
    IN  IF objects # <<>>
        THEN <<Text(<<"I found the following ">> \o Fmt(object_type) \o <<"s ">>
                    \o attributes_repr \o <<":">>)>>
             \o [i \in 1..Len(objects) |->
                   Text(<<DigitStr[i]>> \o <<": ">> \o repr_function(objects[i]))]
        ELSE <<Text(<<"I could not find any ">> \o Fmt(object_type) \o <<"s ">>
                    \o attributes_repr \o <<".">>)>>

\* Mutant of utter_attribute_value: nothing is said when there is no value.
UtterAttributeValueSilent(object_name, attribute_name, attribute_value) ==
    IF Truthy(attribute_value)
    THEN <<Text(sanitize(Fmt(attribute_value)) \o <<".">>)>>
    ELSE <<>>

\* ActionElasticsearchKnowledgeBase.utter_attribute_value
utter_attribute_value(object_name, attribute_name, attribute_value) ==
    IF Truthy(attribute_value)
    THEN <<Text(sanitize(Fmt(attribute_value)) \o <<".">>)>>
    ELSE <<Text(<<"Did not find a valid value for attribute '">> \o Chars(attribute_name)
                \o <<"' for object '">> \o object_name \o <<"'.">>)>>

\* Mutant of sole_object: the first result is taken however many there are.
SoleObjectAlwaysFirst(objects) == objects[1][key_attribute]

\* _query_objects: last_object, the sole result's key or None
sole_object(objects) ==
    IF Len(objects) > 1 THEN None ELSE objects[1][key_attribute]

\* Mutant of no_objects_slots: the early return also clears mention and limit.
NoObjectsSlotsClearsLimit(tr, object_attributes) ==
    <<SlotSet(SLOT_MENTION, None), SlotSet(SLOT_LIMIT, None)>>
    \o reset_attribute_slots(tr, object_attributes)

\* Mutant of no_objects_slots: the early return resets nothing.
NoObjectsSlotsNoReset(tr, object_attributes) == <<>>

\* _query_objects: what is returned when nothing was found
no_objects_slots(tr, object_attributes) ==
    reset_attribute_slots(tr, object_attributes)

\* Mutant of objects_slots: the first result is left out of the listed objects.
ObjectsSlotsSkipFirst(object_type, objects) ==
    << SlotSet(SLOT_OBJECT_TYPE, object_type),
       SlotSet(SLOT_MENTION, None),
       SlotSet(SLOT_ATTRIBUTE, None),
       SlotSet(SLOT_LAST_OBJECT, sole_object(objects)),
       SlotSet(SLOT_LAST_OBJECT_TYPE, object_type),
       SlotSet(SLOT_LISTED_OBJECTS,
               [i \in 1..(Len(objects) - 1) |-> objects[i + 1][key_attribute]]),
       SlotSet(SLOT_LIMIT, None) >>

\* _query_objects: the slots list built when something was found
objects_slots(object_type, objects) ==
    << SlotSet(SLOT_OBJECT_TYPE, object_type),
       SlotSet(SLOT_MENTION, None),
       SlotSet(SLOT_ATTRIBUTE, None),
       SlotSet(SLOT_LAST_OBJECT, sole_object(objects)),
       SlotSet(SLOT_LAST_OBJECT_TYPE, object_type),
       SlotSet(SLOT_LISTED_OBJECTS,
               [i \in 1..Len(objects) |-> objects[i][key_attribute]]),
       SlotSet(SLOT_LIMIT, None) >>

\* Mutant of size_limit: the limit slot is not consulted.
SizeLimitIgnoresSlot(limit) == DefaultLimit

\* _query_objects: int(limit) when the limit slot is set, else get_objects' default
size_limit(limit) == IF Truthy(limit) THEN ParseInt(limit) ELSE DefaultLimit

\* ActionElasticsearchKnowledgeBase._query_objects
_query_objects(object_type, tr, ents, rs) ==
    LET queried(object_attributes, attributes, got) ==
            IF got.fault # NoFault
            THEN raised("listing", got.calls, got.fault)
            ELSE IF got.value = <<>>
            THEN Result("listing", no_objects_slots(tr, object_attributes),
                        utter_objects(object_type, got.value, attributes),
                        got.calls, NoFault)
            ELSE Result("listing",
                        objects_slots(object_type, got.value)
                        \o reset_attribute_slots(tr, object_attributes),
                        utter_objects(object_type, got.value, attributes),
                        got.calls, NoFault)
        filtered(object_attributes, attributes) ==
            queried(object_attributes, attributes,
                    get_objects(object_type, attributes,
                                size_limit(get_slot(tr, SLOT_LIMIT)), rs, 1))
        described(object_attributes) ==
            filtered(object_attributes,
                     get_attribute_slots(tr, ents, object_attributes))
    IN  described(get_attributes_of_object(object_type))

\* self.knowledge_base.document_types[object_type].to_string(obj): the subscript
\* raises KeyError for a type the registry lacks.
type_to_string(object_type, obj) ==
    IF object_type \notin DOMAIN document_types THEN Raise("KeyError")
    ELSE to_string(object_type, obj)

\* _query_join_objects: the utterance of a successful join
join_text(obj_repr, object_type, last_object_type, last_obj_repr) ==
    Text(obj_repr \o <<" is the ">> \o Fmt(object_type) \o <<" for ">>
         \o Fmt(last_object_type) \o <<" ">> \o last_obj_repr \o <<".">>)

\* Mutant of join_slots: the listed objects are dropped with the mention.
JoinSlotsDropList(object_type, last_object_type, object_name) ==
    << SlotSet(SLOT_OBJECT_TYPE, last_object_type),
       SlotSet(SLOT_MENTION, None),
       SlotSet(SLOT_ATTRIBUTE, None),
       SlotSet(SLOT_LAST_OBJECT, object_name),
       SlotSet(SLOT_LAST_OBJECT_TYPE, last_object_type),
       SlotSet(SLOT_LISTED_OBJECTS, NoList),
       SlotSet(SLOT_LIMIT, None) >>

\* Mutant of join_slots: the two type slots are swapped.
JoinSlotsSwap(object_type, last_object_type, object_name) ==
    << SlotSet(SLOT_OBJECT_TYPE, last_object_type),
       SlotSet(SLOT_MENTION, None),
       SlotSet(SLOT_ATTRIBUTE, None),
       SlotSet(SLOT_LAST_OBJECT, object_name),
       SlotSet(SLOT_LAST_OBJECT_TYPE, object_type),
       SlotSet(SLOT_LIMIT, None) >>

\* _query_join_objects: the events of a successful join
join_slots(object_type, last_object_type, object_name) ==
    << SlotSet(SLOT_OBJECT_TYPE, last_object_type),
       SlotSet(SLOT_MENTION, None),
       SlotSet(SLOT_ATTRIBUTE, None),
       SlotSet(SLOT_LAST_OBJECT, object_name),
       SlotSet(SLOT_LAST_OBJECT_TYPE, last_object_type),
       SlotSet(SLOT_LIMIT, None) >>

\* _query_join_objects: the events returned with the clarification request
join_miss_slots == <<SlotSet(SLOT_MENTION, None)>>

\* ActionElasticsearchKnowledgeBase._query_join_objects
_query_join_objects(object_type, last_object_type, tr, rs) ==
    LET rendered(object_name, cs, obj_repr, last_obj_repr) ==
            IF obj_repr.fault # NoFault THEN raised("join", cs, obj_repr.fault)
            ELSE IF last_obj_repr.fault # NoFault
            THEN raised("join", cs, last_obj_repr.fault)
            ELSE Result("join",
                        join_slots(object_type, last_object_type, object_name),
                        <<join_text(obj_repr.value, object_type, last_object_type,
                                    last_obj_repr.value)>>,
                        cs, NoFault)
        looked_up(object_name, first, second) ==
            IF second.fault # NoFault
            THEN raised("join", first.calls \o second.calls, second.fault)
            ELSE rendered(object_name, first.calls \o second.calls,
                          type_to_string(object_type, second.value),
                          type_to_string(last_object_type, first.value))
        found_last(object_name, first) ==
            IF first.fault # NoFault THEN raised("join", first.calls, first.fault)
            ELSE IF ~Truthy(object_name) \/ ~Truthy(object_type)
                    \/ first.value = NoObject
            THEN Result("join", join_miss_slots,
                        <<Template("utter_ask_rephrase")>>, first.calls, NoFault)
            ELSE looked_up(object_name, first,
                           get_object(object_type, object_name, rs,
                                      Len(first.calls) + 1))
        named(name) ==
            IF name.fault # NoFault THEN raised("join", <<>>, name.fault)
            ELSE found_last(name.value,
                            get_object(last_object_type, name.value, rs, 1))
    IN  named(get_object_name(tr))

\* rasa_sdk ActionQueryKnowledgeBase._query_attribute (run calls it; not overridden)
_query_attribute(object_type, attribute, tr, rs) ==
    LET found(object_name, got) ==
            IF got.fault # NoFault THEN raised("attribute", got.calls, got.fault)
            ELSE IF got.value = NoObject \/ attribute \notin DOMAIN got.value
            THEN Result("attribute", <<SlotSet(SLOT_MENTION, None)>>,
                        <<Template("utter_ask_rephrase")>>, got.calls, NoFault)
            ELSE Result("attribute",
                        << SlotSet(SLOT_OBJECT_TYPE, object_type),
                           SlotSet(SLOT_ATTRIBUTE, None),
                           SlotSet(SLOT_MENTION, None),
                           SlotSet(SLOT_LAST_OBJECT, got.value[key_attribute]),
                           SlotSet(SLOT_LAST_OBJECT_TYPE, object_type) >>,
                        utter_attribute_value(repr_function(got.value), attribute,
                                              got.value[attribute]),
                        got.calls, NoFault)
        named(name) ==
            IF name.fault # NoFault THEN raised("attribute", <<>>, name.fault)
            ELSE IF ~Truthy(name.value) \/ ~Truthy(attribute)
            THEN Result("attribute", <<SlotSet(SLOT_MENTION, None)>>,
                        <<Template("utter_ask_rephrase")>>, <<>>, NoFault)
            ELSE found(name.value, get_object(object_type, name.value, rs, 1))
    IN  named(get_object_name(tr))

\* Mutant of no_object_type: the early return clears the mention flag, as the
\* other clarification branches do.
NoObjectTypeClearsMention(tr) ==
    Result("none", <<SlotSet(SLOT_MENTION, None)>>,
           <<Template("utter_ask_rephrase")>>, <<>>, NoFault)

\* run, when the object-type slot is empty: ask to rephrase and return [].
no_object_type(tr) ==
    Result("none", <<>>, <<Template("utter_ask_rephrase")>>, <<>>, NoFault)

\* Mutant of join_condition: the mention flag is not consulted.
JoinConditionIgnoresMention(object_type, last_object_type, has_mention) ==
    Truthy(last_object_type) /\ object_type # last_object_type

\* The condition under which run hands the turn to _query_join_objects.
join_condition(object_type, last_object_type, has_mention) ==
    Truthy(last_object_type) /\ object_type # last_object_type /\ has_mention

\* ActionElasticsearchKnowledgeBase.run, given the responses rs the turn has
\* received from the store so far.
run(tr, ents, rs) ==
    LET object_type == get_slot(tr, SLOT_OBJECT_TYPE)
        last_object_type == get_slot(tr, SLOT_LAST_OBJECT_TYPE)
        attribute == get_slot(tr, SLOT_ATTRIBUTE)
        has_mention == get_slot(tr, SLOT_MENTION) # None
    IN  IF ~Truthy(object_type)
        THEN no_object_type(tr)
        ELSE IF join_condition(object_type, last_object_type, has_mention)
        THEN _query_join_objects(object_type, last_object_type, tr, rs)
        ELSE IF ~Truthy(attribute)
        THEN _query_objects(object_type, tr, ents, rs)
        ELSE _query_attribute(object_type, attribute, tr, rs)

\* ---------------------------------------------------------------- the conversation

SlotNames ==
    { SLOT_OBJECT_TYPE, SLOT_LAST_OBJECT_TYPE, SLOT_ATTRIBUTE, SLOT_MENTION,
      SLOT_LAST_OBJECT, SLOT_LISTED_OBJECTS, SLOT_LIMIT } \cup AllAttributeNames

\* The entities the language understanding extracts from a user message; the engine
\* fills the slot named after each entity with the entity's value. "song" is an
\* object type the registry lacks; "it" is a mention that is no ordinal.
EntityPool ==
    { [entity |-> SLOT_OBJECT_TYPE, value |-> t] : t \in {"book", "movie", "rating", "song"} }
    \cup { [entity |-> SLOT_MENTION, value |-> m] : m \in {"1", "2", "it"} }
    \cup { [entity |-> SLOT_ATTRIBUTE, value |-> a] : a \in {"summary", "genres", "mean_rating"} }
    \cup { [entity |-> SLOT_LIMIT, value |-> DigitStr[i]] : i \in 1..MaxLimit }
    \cup { [entity |-> "title", value |-> "Dune"] }
    \cup { [entity |-> "publication_year", value |-> "1984"] }
    \cup { [entity |-> "publication_year", value |-> "1984", role |-> r] :
             r \in {"eq", "gt"} }
    \cup { [entity |-> "publication_year", value |-> "1965", role |-> "lte"] }

\* The engine applies a state delta: the SlotSet events in order.
RECURSIVE ApplySlotSets(_, _)
ApplySlotSets(tr, evs) ==
    IF evs = <<>> THEN tr
    ELSE ApplySlotSets([tr EXCEPT ![Head(evs).name] = Head(evs).value], Tail(evs))

\* The complete response sequences the store may give to the calls of one turn.
ResponseSeqs(tr, ents) ==
    LET more(rs, r) ==
            IF r.fault # Pending THEN {rs}
            ELSE { Append(rs, b) : b \in ValidResponses(r.calls[Len(r.calls)]) }
        second(rs) == more(rs, run(tr, ents, rs))
    IN  UNION { second(rs) : rs \in more(<<>>, run(tr, ents, <<>>)) }

Init ==
    /\ slots = [n \in SlotNames |-> IF n = SLOT_LISTED_OBJECTS THEN NoList ELSE None]
    /\ entities = <<>>
    /\ pc = "ready"
    /\ mode = "idle"
    /\ events = <<>>
    /\ messages = <<>>
    /\ calls = <<>>
    /\ fault = NoFault

\* A user message arrives: its entities become the latest message and fill slots.
UserInput ==
    /\ pc = "ready"
    /\ \E e \in EntityPool :
          /\ entities' = <<e>>
          /\ slots' = [slots EXCEPT ![e.entity] = e.value]
    /\ UNCHANGED <<pc, mode, events, messages, calls, fault>>

\* The engine resets the object-type slot (a slot reset outside this action).
ClearObjectType ==
    /\ pc = "ready"
    /\ slots[SLOT_OBJECT_TYPE] # None
    /\ slots' = [slots EXCEPT ![SLOT_OBJECT_TYPE] = None]
    /\ UNCHANGED <<entities, pc, mode, events, messages, calls, fault>>

\* The engine calls the action: run reads the tracker, calls the store and returns
\* its events, or raises.
Run ==
    /\ pc = "ready"
    /\ \E rs \in ResponseSeqs(slots, entities) :
          \E res \in {run(slots, entities, rs)} :
              /\ mode' = res.mode
              /\ events' = res.events
              /\ messages' = res.messages
              /\ calls' = res.calls
              /\ fault' = res.fault
    /\ pc' = "returned"
    /\ UNCHANGED <<slots, entities>>

\* The engine applies the returned events to the tracker; a turn that raised
\* returned none.
ApplyEvents ==
    /\ pc = "returned"
    /\ slots' = ApplySlotSets(slots, events)
    /\ pc' = "ready"
    /\ mode' = "idle"
    /\ events' = <<>>
    /\ messages' = <<>>
    /\ calls' = <<>>
    /\ fault' = NoFault
    /\ UNCHANGED entities

Next == UserInput \/ ClearObjectType \/ Run \/ ApplyEvents

Spec == Init /\ [][Next]_vars

\* ---------------------------------------------------------------- properties

\* The tracker after the engine has applied the events of the returned turn.
Post == ApplySlotSets(slots, events)

AskRephrase == <<Template("utter_ask_rephrase")>>

\* The three preconditions of join mode, read from the tracker the turn started on.
JoinPreconditions ==
    /\ Truthy(slots[SLOT_LAST_OBJECT_TYPE])
    /\ slots[SLOT_OBJECT_TYPE] # slots[SLOT_LAST_OBJECT_TYPE]
    /\ slots[SLOT_MENTION] # None

StoreFaulted == \E i \in 1..Len(calls) : calls[i].resp.kind = "fault"

\* The hits of the search a listing turn issued (none for a type the registry lacks).
ListingHits == IF calls = <<>> THEN <<>> ELSE calls[1].resp.hits

ListingCompleted == pc = "returned" /\ mode = "listing" /\ fault = NoFault

SetsSlot(name) == \E i \in 1..Len(events) : events[i].name = name

\* C1: with a non-empty object type, the turn runs join mode exactly when
\* last-object-type is set, differs from object-type, and the mention slot is set;
\* otherwise it runs listing mode when the attribute slot is empty and attribute
\* mode when it is set. Exactly one of the three modes runs.
ModeSelection ==
    (pc = "returned" /\ Truthy(slots[SLOT_OBJECT_TYPE])) =>
        /\ mode \in {"join", "listing", "attribute"}
        /\ (mode = "join") <=> JoinPreconditions
        /\ (mode = "listing") <=> (~JoinPreconditions /\ ~Truthy(slots[SLOT_ATTRIBUTE]))
        /\ (mode = "attribute") <=> (~JoinPreconditions /\ Truthy(slots[SLOT_ATTRIBUTE]))

\* C1 witness: join mode ran although the attribute slot was set.
JoinPreemptsAttribute ==
    pc = "returned" /\ mode = "join" /\ Truthy(slots[SLOT_ATTRIBUTE])

\* C2: with an empty object type, run asks to rephrase, calls the store not at
\* all, and returns no event, so the tracker is unchanged whatever it holds.
NoObjectTypeNoChange ==
    (pc = "returned" /\ ~Truthy(slots[SLOT_OBJECT_TYPE])) =>
        /\ messages = AskRephrase
        /\ calls = <<>>
        /\ events = <<>>
        /\ fault = NoFault
        /\ Post = slots

\* C2 witness: a turn without object type on a tracker whose other slots are set.
NoObjectTypeTurn ==
    /\ pc = "returned" /\ mode = "none"
    /\ slots[SLOT_OBJECT_TYPE] = None
    /\ slots[SLOT_LAST_OBJECT_TYPE] # None
    /\ slots[SLOT_MENTION] # None
    /\ slots[SLOT_ATTRIBUTE] # None
    /\ slots[SLOT_LAST_OBJECT] # None
    /\ slots[SLOT_LISTED_OBJECTS] # NoList
    /\ slots[SLOT_LIMIT] # None
    /\ slots["title"] # None

\* A lookup of the join missed: the store held no document for the identifier
\* (which is None when the name could not be resolved).
JoinMissed ==
    /\ pc = "returned" /\ mode = "join"
    /\ \E i \in 1..Len(calls) : calls[i].resp.kind = "empty"

\* C3 (as claimed): when the name is unresolved or either lookup of a join misses,
\* the turn asks to rephrase, clears the mention flag and nothing else, and no
\* fault is raised.
JoinMissClarifies ==
    JoinMissed =>
        /\ fault = NoFault
        /\ messages = AskRephrase
        /\ events = <<SlotSet(SLOT_MENTION, None)>>

\* Both lookups of a join found their document and the turn returned.
JoinSucceeded ==
    /\ pc = "returned" /\ mode = "join" /\ fault = NoFault
    /\ Len(calls) = 2
    /\ calls[1].resp.kind = "doc" /\ calls[2].resp.kind = "doc"

\* The rendering of the document a lookup found.
Rendered(call) == to_string(call.index, call.resp.hit.source).value

\* What a successful join leaves besides the two type slots: mention, attribute
\* and limit empty, last-object the identifier that was looked up, and the single
\* utterance "<current object> is the <current type> for <previous type>
\* <previous object>.".
JoinOutcome ==
    /\ Post[SLOT_MENTION] = None
    /\ Post[SLOT_ATTRIBUTE] = None
    /\ Post[SLOT_LIMIT] = None
    /\ Post[SLOT_LAST_OBJECT] = get_object_name(slots).value
    /\ calls[1].id = get_object_name(slots).value
    /\ calls[2].id = calls[1].id
    /\ calls[1].index = slots[SLOT_LAST_OBJECT_TYPE]
    /\ calls[2].index = slots[SLOT_OBJECT_TYPE]
    /\ messages = << Text(Rendered(calls[2]) \o <<" is the ">>
                          \o <<slots[SLOT_OBJECT_TYPE]>> \o <<" for ">>
                          \o <<slots[SLOT_LAST_OBJECT_TYPE]>> \o <<" ">>
                          \o Rendered(calls[1]) \o <<".">>) >>

\* C4 (as claimed): a successful join swaps the two type slots: object-type takes
\* the previous type and last-object-type takes the pre-turn object type.
JoinSwapsTypes ==
    JoinSucceeded =>
        /\ Post[SLOT_OBJECT_TYPE] = slots[SLOT_LAST_OBJECT_TYPE]
        /\ Post[SLOT_LAST_OBJECT_TYPE] = slots[SLOT_OBJECT_TYPE]
        /\ JoinOutcome

\* C4 (amended): a successful join puts the previous type in both type slots:
\* object-type and last-object-type both hold the pre-turn last-object-type; the
\* rest is as claimed.
JoinReturnsToPreviousType ==
    JoinSucceeded =>
        /\ Post[SLOT_OBJECT_TYPE] = slots[SLOT_LAST_OBJECT_TYPE]
        /\ Post[SLOT_LAST_OBJECT_TYPE] = slots[SLOT_LAST_OBJECT_TYPE]
        /\ JoinOutcome

\* C4 witness: a successful join on a tracker with attribute and limit set.
JoinSucceededTurn ==
    /\ JoinSucceeded
    /\ slots[SLOT_ATTRIBUTE] # None
    /\ slots[SLOT_LIMIT] # None

\* C5: a listing turn that found objects sets object-type and last-object-type to
\* the current type, empties mention, attribute and limit, and sets listed-objects
\* to the identifiers of all hits in the store's order.
ListingSetsFocus ==
    (ListingCompleted /\ ListingHits # <<>>) =>
        /\ \A n \in { SLOT_OBJECT_TYPE, SLOT_LAST_OBJECT_TYPE, SLOT_MENTION,
                       SLOT_ATTRIBUTE, SLOT_LIMIT, SLOT_LISTED_OBJECTS } : SetsSlot(n)
        /\ Post[SLOT_OBJECT_TYPE] = slots[SLOT_OBJECT_TYPE]
        /\ Post[SLOT_LAST_OBJECT_TYPE] = slots[SLOT_OBJECT_TYPE]
        /\ Post[SLOT_MENTION] = None
        /\ Post[SLOT_ATTRIBUTE] = None
        /\ Post[SLOT_LIMIT] = None
        /\ Len(Post[SLOT_LISTED_OBJECTS]) = Len(ListingHits)
        /\ \A i \in 1..Len(ListingHits) :
              Post[SLOT_LISTED_OBJECTS][i] = ListingHits[i].id

\* C5 witness: a listing of two objects on a tracker that held another type, a
\* mention and a limit.
ListingOfTwo ==
    /\ ListingCompleted
    /\ Len(ListingHits) = 2
    /\ slots[SLOT_LAST_OBJECT_TYPE] \notin {None, slots[SLOT_OBJECT_TYPE]}
    /\ slots[SLOT_LIMIT] # None

\* C6 (as claimed): a listing with one result sets last-object to its key; with
\* no result or several, last-object is empty after the turn.
ListingLastObjectUnset ==
    ListingCompleted =>
        Post[SLOT_LAST_OBJECT] =
            IF Len(ListingHits) = 1 THEN ListingHits[1].id ELSE None

\* C6 (amended): a listing with one result sets last-object to its key; with
\* several results last-object is empty after the turn, whatever it held; with
\* no result the turn does not write last-object, which keeps its value.
ListingLastObject ==
    ListingCompleted =>
        /\ Len(ListingHits) = 1 => Post[SLOT_LAST_OBJECT] = ListingHits[1].id
        /\ Len(ListingHits) > 1 => Post[SLOT_LAST_OBJECT] = None
        /\ Len(ListingHits) = 0 =>
              /\ ~SetsSlot(SLOT_LAST_OBJECT)
              /\ Post[SLOT_LAST_OBJECT] = slots[SLOT_LAST_OBJECT]

\* C6 witness: a listing of several objects on a tracker whose last-object was set.
ListingOfSeveralAfterOne ==
    /\ ListingCompleted
    /\ Len(ListingHits) > 1
    /\ slots[SLOT_LAST_OBJECT] # None

\* The attribute slots the search of a listing turn consulted as filters.
ConsultedFilters ==
    IF calls = <<>> THEN {}
    ELSE { calls[1].body.must[i].field : i \in 1..Len(calls[1].body.must) }

\* C7: when the engine applies a completed listing turn, every attribute slot the
\* turn consulted as a filter becomes empty, and no step but a user message ever
\* fills an attribute slot: a filter one listing applied is applied by a later one
\* only after the engine has set its slot again.
StaleFiltersDoNotLeak ==
    [][ /\ ListingCompleted => \A a \in ConsultedFilters : slots'[a] = None
        /\ \A a \in AllAttributeNames :
              (slots[a] = None /\ slots'[a] # None) =>
                  (pc = "ready" /\ pc' = "ready" /\ entities' # <<>>
                   /\ entities'[1].entity = a) ]_vars

\* C7 witness: a listing turn that found nothing although it applied two filters.
FilteredListingFoundNothing ==
    /\ ListingCompleted
    /\ ListingHits = <<>>
    /\ Cardinality(ConsultedFilters) = 2

\* C8 (as claimed): no utterance text dispatched to the user contains one of the
\* characters { } [ ].
NoBracketDispatched ==
    \A i \in 1..Len(messages) :
        "text" \in DOMAIN messages[i] => ~HasBracket(messages[i].text)

\* C9 (as claimed): a fault of a store call is caught: the turn ends with the
\* clarification request and no fault leaves run.
StoreFaultCaught ==
    (pc = "returned" /\ StoreFaulted) =>
        /\ fault = NoFault
        /\ messages = AskRephrase

\* C10: a turn in which a store call faulted returns no event, so no slot changes.
StoreFaultNoDelta ==
    (pc = "returned" /\ StoreFaulted) =>
        /\ events = <<>>
        /\ Post = slots

\* C10 witness: the second lookup of a join faulted after the first had succeeded.
JoinSecondLookupFaulted ==
    /\ pc = "returned" /\ mode = "join"
    /\ Len(calls) = 2
    /\ calls[1].resp.kind = "doc"
    /\ calls[2].resp.kind = "fault"

\* A type the registry lacks.
UnknownType(t) == Truthy(t) /\ t \notin DOMAIN document_types

\* C11 (as claimed): a turn whose object type or previous object type is not in
\* the registry ends, in whichever mode it runs, without a fault and with the
\* not-found message or the clarification request. (Turns in which the store
\* raised, or the mention did not resolve, are left aside.)
UnknownTypeNoFault ==
    ( /\ pc = "returned"
      /\ UnknownType(slots[SLOT_OBJECT_TYPE]) \/ UnknownType(slots[SLOT_LAST_OBJECT_TYPE])
      /\ ~StoreFaulted
      /\ get_object_name(slots).fault = NoFault ) =>
        /\ fault = NoFault
        /\ \/ messages = AskRephrase
           \/ messages = utter_objects(slots[SLOT_OBJECT_TYPE], <<>>, <<>>)

\* The point lookups of the turn that the store answered (it did not raise).
AnsweredLookups ==
    { i \in 1..Len(calls) : calls[i].op = "get" /\ calls[i].resp.kind # "fault" }

\* get_object applied again to the type, identifier and store answer of a lookup.
Looked(call) == get_object(call.index, call.id, <<call.resp>>, 1)

ListingOfKnownType ==
    /\ pc = "returned" /\ mode = "listing"
    /\ slots[SLOT_OBJECT_TYPE] \in DOMAIN document_types

\* The attribute slots of the turn's type that hold a value: the filters.
FilterSlots ==
    { a \in AllAttributeNames :
        /\ \E i \in 1..Len(document_types[slots[SLOT_OBJECT_TYPE]].attributes) :
              document_types[slots[SLOT_OBJECT_TYPE]].attributes[i].name = a
        /\ slots[a] # None }

\* What get_objects returned to a completed listing turn: get_objects applied
\* again to the turn's type, filters and limit and to the store's answer.
ListedObjects ==
    get_objects(slots[SLOT_OBJECT_TYPE],
                get_attribute_slots(slots, entities,
                                    get_attributes_of_object(slots[SLOT_OBJECT_TYPE])),
                calls[1].body.size, <<calls[1].resp>>, 1).value

\* C13: a listing on a known type issues exactly one store query, a search on the
\* type's index whose conjunction holds exactly one fragment per filter and whose
\* size cap is the integer of the limit slot when that is set and 5 otherwise;
\* when the turn completes, the objects returned are no more than the cap, one
\* per hit in hit order, each with its id and its name.
ListObjectsQuery ==
    ListingOfKnownType =>
        /\ Len(calls) = 1
        /\ calls[1].op = "search"
        /\ calls[1].index = document_types[slots[SLOT_OBJECT_TYPE]].index
        /\ calls[1].body.size =
              IF slots[SLOT_LIMIT] \notin {None, ""}
              THEN ParseInt(slots[SLOT_LIMIT]) ELSE 5
        /\ Len(calls[1].body.must) = Cardinality(FilterSlots)
        /\ { calls[1].body.must[i].field : i \in 1..Len(calls[1].body.must) }
              = FilterSlots
        /\ fault = NoFault =>
              /\ Len(ListedObjects) <= calls[1].body.size
              /\ Len(ListedObjects) = Len(ListingHits)
              /\ \A i \in 1..Len(ListingHits) :
                    /\ ListedObjects[i]["id"] = ListingHits[i].id
                    /\ ListedObjects[i]["name"] =
                          to_string(slots[SLOT_OBJECT_TYPE], ListingHits[i].source).value
                    /\ messages[i + 1] =
                          Text(<<DigitStr[i], ": ">> \o ListedObjects[i]["name"])

\* C13 witness: a completed listing with limit 1 and a filter on an index of two
\* documents returned one object.
ListingCappedByLimit ==
    /\ ListingOfKnownType /\ fault = NoFault
    /\ slots[SLOT_LIMIT] = "1"
    /\ Cardinality(DOMAIN Store[slots[SLOT_OBJECT_TYPE]]) > 1
    /\ Cardinality(FilterSlots) = 2
    /\ Len(ListingHits) = 1

\* The role get_attribute_slots pairs with the filter on attribute a: the role of
\* the first entity of the latest message that names a, carries the slot's value
\* and has a role; None when there is no such entity.
EntityRole(a) ==
    LET matching == { i \in 1..Len(entities) :
                        /\ entities[i].entity = a
                        /\ entities[i].value = slots[a]
                        /\ "role" \in DOMAIN entities[i] }
    IN  IF matching = {} THEN None
        ELSE entities[CHOOSE i \in matching : \A j \in matching : i <= j].role

\* C14: in the search of a listing, the fragment of every filter on a range
\* attribute is a plain match on the attribute's field when the role is "eq", and
\* otherwise a range on that field keyed by the role, which is the role tag of the
\* matching entity or None when no entity of the latest message matches.
RangeStrategyRoles ==
    ListingOfKnownType =>
        \A i \in 1..Len(calls[1].body.must) :
            LET f == calls[1].body.must[i].field
            IN  AttributeKind(slots[SLOT_OBJECT_TYPE], f) = "range" =>
                    calls[1].body.must[i] =
                        IF EntityRole(f) = "eq"
                        THEN [kind |-> "match", field |-> f, query |-> slots[f]]
                        ELSE [kind |-> "range", field |-> f, op |-> EntityRole(f),
                              value |-> slots[f]]

\* C14 witness: a listing filtered on a range attribute whose value no entity of
\* the latest message carries: the range fragment is keyed by None.
RangeFilterWithoutRole ==
    /\ ListingOfKnownType
    /\ \E i \in 1..Len(calls[1].body.must) :
          /\ calls[1].body.must[i].kind = "range"
          /\ calls[1].body.must[i].op = None
    /\ entities[1].entity # "publication_year"

\* An attribute turn whose referenced object was resolved and found.
AttributeFound ==
    /\ pc = "returned" /\ mode = "attribute" /\ fault = NoFault
    /\ Len(calls) = 1
    /\ calls[1].resp.kind = "doc"

\* The attribute of interest is declared on the turn's type.
AttributeOnSchema ==
    \E i \in 1..Len(document_types[slots[SLOT_OBJECT_TYPE]].attributes) :
        document_types[slots[SLOT_OBJECT_TYPE]].attributes[i].name = slots[SLOT_ATTRIBUTE]

\* The value the found document holds for the attribute of interest, None when
\* the document lacks the field.
FoundValue ==
    IF slots[SLOT_ATTRIBUTE] \in DOMAIN calls[1].resp.hit.source
    THEN calls[1].resp.hit.source[slots[SLOT_ATTRIBUTE]]
    ELSE None

\* C15: an attribute turn whose object was resolved and found, for an attribute
\* of the type, dispatches exactly one text, never an empty one: the object's
\* value for the attribute when there is one, and otherwise the "no valid value"
\* message naming the attribute and the object.
AttributeValueReported ==
    (AttributeFound /\ AttributeOnSchema) =>
        /\ calls[1].op = "get"
        /\ calls[1].index = slots[SLOT_OBJECT_TYPE]
        /\ calls[1].id = get_object_name(slots).value
        /\ Len(messages) = 1
        /\ "text" \in DOMAIN messages[1]
        /\ messages[1].text # <<>>
        /\ messages[1] =
              IF FoundValue \notin {None, ""}
              THEN Text(sanitize(Chars(FoundValue)) \o <<".">>)
              ELSE Text(<<"Did not find a valid value for attribute '",
                          slots[SLOT_ATTRIBUTE], "' for object '">>
                        \o Rendered(calls[1]) \o <<"'.">>)

\* C15 witness: the summary of a book whose summary field is empty was asked for.
EmptySummaryAsked ==
    /\ AttributeFound
    /\ slots[SLOT_OBJECT_TYPE] = "book"
    /\ slots[SLOT_ATTRIBUTE] = "summary"
    /\ FoundValue = ""

\* The tracker as a listing of movies that returned results leaves it: the
\* previous type is "movie", listed-objects holds movies of the store, and
\* last-object the sole one of them, if it is the sole one.
AfterMovieListing ==
    /\ slots[SLOT_LAST_OBJECT_TYPE] = "movie"
    /\ slots[SLOT_LISTED_OBJECTS] # NoList
    /\ \A i \in 1..Len(slots[SLOT_LISTED_OBJECTS]) :
          slots[SLOT_LISTED_OBJECTS][i] \in DOMAIN Store["movie"]
    /\ slots[SLOT_LAST_OBJECT] =
          IF Len(slots[SLOT_LISTED_OBJECTS]) = 1
          THEN slots[SLOT_LISTED_OBJECTS][1] ELSE None

\* The next turn asks for the rating of a mentioned movie: the engine has set the
\* object type to "rating" and the mention flag. (Every listed movie has a rating,
\* the store answers, and an ordinal mention stays within the list.)
RatingAsked ==
    /\ pc = "returned"
    /\ AfterMovieListing
    /\ slots[SLOT_OBJECT_TYPE] = "rating"
    /\ slots[SLOT_MENTION] # None
    /\ \A i \in 1..Len(slots[SLOT_LISTED_OBJECTS]) :
          slots[SLOT_LISTED_OBJECTS][i] \in DOMAIN Store["rating"]
    /\ ~StoreFaulted
    /\ get_object_name(slots).fault = NoFault

\* The join found the movie and its rating and said
\* "<mean_rating> out of 10 (<total_votes> votes) is the rating for movie <title>
\* from <year>.".
RatingOfMovieTold ==
    /\ mode = "join" /\ fault = NoFault
    /\ Len(calls) = 2
    /\ calls[1] = [op |-> "get", index |-> "movie", id |-> calls[1].id,
                   resp |-> [kind |-> "doc", hit |-> Hit("movie", calls[1].id)]]
    /\ calls[2] = [op |-> "get", index |-> "rating", id |-> calls[1].id,
                   resp |-> [kind |-> "doc", hit |-> Hit("rating", calls[1].id)]]
    /\ \E i \in 1..Len(slots[SLOT_LISTED_OBJECTS]) :
          slots[SLOT_LISTED_OBJECTS][i] = calls[1].id
    /\ messages =
          << Text(<<Store["rating"][calls[1].id].mean_rating, " out of 10 (",
                    Store["rating"][calls[1].id].total_votes, " votes)",
                    " is the ", "rating", " for ", "movie", " ">>
                  \o Chars(Store["movie"][calls[1].id].title)
                  \o <<" from ">>
                  \o Chars(Store["movie"][calls[1].id].publication_year)
                  \o <<".">>) >>

MaxConversations == 2

Conversations == 1..MaxConversations

FreshSlots == [n \in SlotNames |-> IF n = SLOT_LISTED_OBJECTS THEN NoList ELSE None]

\* Trackers on which a turn starts: a listing of movies, a filtered listing of
\* books, the rating of the first of two listed movies, the summary of the book
\* last referred to, and a message without object type.
TurnPool ==
    { [slots |-> [FreshSlots EXCEPT ![SLOT_OBJECT_TYPE] = "movie"],
       entities |-> <<[entity |-> SLOT_OBJECT_TYPE, value |-> "movie"]>>],
      [slots |-> [FreshSlots EXCEPT ![SLOT_OBJECT_TYPE] = "book", !["title"] = "Dune"],
       entities |-> <<[entity |-> "title", value |-> "Dune"]>>],
      [slots |-> [FreshSlots EXCEPT ![SLOT_OBJECT_TYPE] = "rating",
                                    ![SLOT_LAST_OBJECT_TYPE] = "movie",
                                    ![SLOT_LISTED_OBJECTS] = <<"m1", "m2">>,
                                    ![SLOT_MENTION] = "1"],
       entities |-> <<[entity |-> SLOT_MENTION, value |-> "1"]>>],
      [slots |-> [FreshSlots EXCEPT ![SLOT_OBJECT_TYPE] = "book",
                                    ![SLOT_LAST_OBJECT_TYPE] = "book",
                                    ![SLOT_LAST_OBJECT] = "b1",
                                    ![SLOT_LISTED_OBJECTS] = <<"b1">>,
                                    ![SLOT_ATTRIBUTE] = "summary"],
       entities |-> <<[entity |-> SLOT_ATTRIBUTE, value |-> "summary"]>>],
      [slots |-> FreshSlots, entities |-> <<>>] }

\* The responses turn c has received: those of its calls but the outstanding one.
Received(c) == [i \in 1..(Len(calls[c]) - 1) |-> calls[c][i].resp]

\* Mutant of Outstanding: the gateway keeps the index of the request in a field
\* of its own, which a turn that called later has overwritten.
OutstandingSharedIndex(c) ==
    LET own == calls[c][Len(calls[c])]
        others == { d \in Conversations :
                      d # c /\ pc[d] = "waiting"
                      /\ calls[d][Len(calls[d])].op = own.op }
    IN  IF others = {} THEN own
        ELSE [own EXCEPT !.index =
                 calls[CHOOSE d \in others : TRUE][Len(calls[CHOOSE d \in others : TRUE])].index]

\* The request the store receives from turn c, suspended at a store call: index,
\* query and identifier are locals of the turn's own get_objects / get_object call.
Outstanding(c) == calls[c][Len(calls[c])]

ConcInit ==
    /\ \E t \in [Conversations -> TurnPool] :
          /\ slots = [c \in Conversations |-> t[c].slots]
          /\ entities = [c \in Conversations |-> t[c].entities]
    /\ pc = [c \in Conversations |-> "ready"]
    /\ mode = [c \in Conversations |-> "idle"]
    /\ events = [c \in Conversations |-> <<>>]
    /\ messages = [c \in Conversations |-> <<>>]
    /\ calls = [c \in Conversations |-> <<>>]
    /\ fault = [c \in Conversations |-> NoFault]

\* Turn c has run up to its next store call, or to its end.
Advance(c, res) ==
    /\ mode' = [mode EXCEPT ![c] = res.mode]
    /\ events' = [events EXCEPT ![c] = res.events]
    /\ messages' = [messages EXCEPT ![c] = res.messages]
    /\ calls' = [calls EXCEPT ![c] = res.calls]
    /\ fault' = [fault EXCEPT ![c] = res.fault]
    /\ pc' = [pc EXCEPT ![c] = IF res.fault = Pending THEN "waiting" ELSE "returned"]
    /\ UNCHANGED <<slots, entities>>

\* The engine calls run for conversation c.
Begin(c) ==
    /\ pc[c] = "ready"
    /\ \E res \in {run(slots[c], entities[c], <<>>)} : Advance(c, res)

\* The store answers the request of turn c, which resumes.
Answer(c) ==
    /\ pc[c] = "waiting"
    /\ \E b \in ValidResponses(Outstanding(c)) :
          \E res \in {run(slots[c], entities[c], Append(Received(c), b))} :
              Advance(c, res)

\* The engine applies the events turn c returned to the tracker of c.
Deliver(c) ==
    /\ pc[c] = "returned"
    /\ slots' = [slots EXCEPT ![c] = ApplySlotSets(slots[c], events[c])]
    /\ pc' = [pc EXCEPT ![c] = "done"]
    /\ UNCHANGED <<entities, mode, events, messages, calls, fault>>

ConcNext == \E c \in Conversations : Begin(c) \/ Answer(c) \/ Deliver(c)

ConcSpec == ConcInit /\ [][ConcNext]_vars

\* The outcomes of the turn of conversation c when it runs alone.
AloneOutcomes(c) ==
    { run(slots[c], entities[c], rs) : rs \in ResponseSeqs(slots[c], entities[c]) }

HitsReturned ==
    UNION { IF calls[i].resp.kind = "hits"
            THEN { [object_type |-> calls[i].index, hit |-> calls[i].resp.hits[j]] :
                     j \in 1..Len(calls[i].resp.hits) }
            ELSE IF calls[i].resp.kind = "doc"
            THEN { [object_type |-> calls[i].index, hit |-> calls[i].resp.hit] }
            ELSE {} : i \in 1..Len(calls) }

\* to_kb_obj of a hit yields an object with the store's identifier as id, the
\* type's rendering as name, and every declared attribute the document holds.
Normalizes(object_type, hit) ==
    /\ to_kb_obj(hit, object_type).fault = NoFault
    /\ to_kb_obj(hit, object_type).value["id"] = hit.id
    /\ to_kb_obj(hit, object_type).value["name"] =
          to_string(object_type, hit.source).value
    /\ \A i \in 1..Len(document_types[object_type].attributes) :
          LET a == document_types[object_type].attributes[i].name
          IN  a \in DOMAIN hit.source =>
                  to_kb_obj(hit, object_type).value[a] = hit.source[a]

\* C18 (as claimed): every raw hit of a known type the store returns is
\* normalized to an object with name, id and the declared attributes the
\* document holds, also when the document lacks declared fields.
NormalizationTotal ==
    pc = "returned" => \A h \in HitsReturned : Normalizes(h.object_type, h.hit)

\* ---------------------------------------------------------------- frame effects

\* The slots of the conversation's focus, as against the attribute-filter slots.
FocusSlots ==
    { SLOT_OBJECT_TYPE, SLOT_LAST_OBJECT_TYPE, SLOT_LAST_OBJECT,
      SLOT_LISTED_OBJECTS, SLOT_MENTION, SLOT_ATTRIBUTE, SLOT_LIMIT }

\* C19: a listing turn that finds nothing returns only resets of the attribute
\* slots it consulted as filters: no focus slot is written, each keeps its
\* pre-turn value, and no other slot changes.
EmptyListingKeepsFocus ==
    (ListingCompleted /\ ListingHits = <<>>) =>
        /\ \A n \in FocusSlots : ~SetsSlot(n) /\ Post[n] = slots[n]
        /\ \A i \in 1..Len(events) :
              events[i].name \in ConsultedFilters /\ events[i].value = None
        /\ \A a \in ConsultedFilters : SetsSlot(a) /\ Post[a] = None
        /\ \A n \in DOMAIN slots : n \notin ConsultedFilters => Post[n] = slots[n]

\* C19 witness: a filtered listing found nothing on a tracker that held a limit,
\* a mention and the objects of an earlier listing.
EmptyListingWithLimitAndMention ==
    /\ ListingCompleted
    /\ ListingHits = <<>>
    /\ ConsultedFilters # {}
    /\ slots[SLOT_LIMIT] # None
    /\ slots[SLOT_MENTION] # None
    /\ slots[SLOT_LISTED_OBJECTS] # NoList

\* A join turn leaves the listed objects and the attribute-filter slots alone,
\* whether it succeeds, asks to rephrase or raises.
JoinFrame ==
    /\ ~SetsSlot(SLOT_LISTED_OBJECTS)
    /\ Post[SLOT_LISTED_OBJECTS] = slots[SLOT_LISTED_OBJECTS]
    /\ \A a \in AllAttributeNames : ~SetsSlot(a) /\ Post[a] = slots[a]

\* After the turn an ordinal mention resolves against the list the turn started on.
OrdinalsResolveAsBefore ==
    /\ Post[SLOT_LISTED_OBJECTS] # NoList
    /\ \A i \in 1..Len(slots[SLOT_LISTED_OBJECTS]) :
          resolve_mention([Post EXCEPT ![SLOT_MENTION] = DigitStr[i]])
              = Ok(slots[SLOT_LISTED_OBJECTS][i])

\* C20 (as claimed): a join turn never changes listed-objects or an attribute
\* slot; after a successful join every listed identifier is an object of the type
\* now in the object-type slot, and ordinal mentions resolve against that list.
JoinKeepsListOfFocusType ==
    (pc = "returned" /\ mode = "join") =>
        /\ JoinFrame
        /\ JoinSucceeded =>
              /\ OrdinalsResolveAsBefore
              /\ \A i \in 1..Len(Post[SLOT_LISTED_OBJECTS]) :
                    Post[SLOT_LISTED_OBJECTS][i]
                        \in DOMAIN Store[Post[SLOT_OBJECT_TYPE]]

\* C20 (amended): a join turn never changes listed-objects or an attribute slot;
\* after a successful join ordinal mentions resolve against that list, and the
\* listed identifier the join resolved, now last-object, is an object of the type
\* now in the object-type slot. The other listed identifiers are objects of that
\* type if they were objects of the previous type when the turn started.
JoinKeepsListedObjects ==
    (pc = "returned" /\ mode = "join") =>
        /\ JoinFrame
        /\ JoinSucceeded =>
              /\ OrdinalsResolveAsBefore
              /\ \E i \in 1..Len(Post[SLOT_LISTED_OBJECTS]) :
                    Post[SLOT_LISTED_OBJECTS][i] = Post[SLOT_LAST_OBJECT]
              /\ Post[SLOT_LAST_OBJECT] \in DOMAIN Store[Post[SLOT_OBJECT_TYPE]]
              /\ (\A i \in 1..Len(slots[SLOT_LISTED_OBJECTS]) :
                     slots[SLOT_LISTED_OBJECTS][i]
                         \in DOMAIN Store[slots[SLOT_LAST_OBJECT_TYPE]])
                 => (\A i \in 1..Len(Post[SLOT_LISTED_OBJECTS]) :
                        Post[SLOT_LISTED_OBJECTS][i]
                            \in DOMAIN Store[Post[SLOT_OBJECT_TYPE]])

\* C20 witness: a successful join on a tracker that lists two objects and holds
\* an attribute filter.
JoinWithListAndFilter ==
    /\ JoinSucceeded
    /\ Len(slots[SLOT_LISTED_OBJECTS]) = 2
    /\ slots["title"] # None

====
